---- MODULE Spec2Model ----
(***************************************************************************)
(* DIDRepChecker.py: the asynchronous phone-reputation scraper.            *)
(*                                                                         *)
(* Two specifications share this module.                                   *)
(*   SpecLimiter  the RateLimiter object driven by concurrent tasks that   *)
(*                call acquire() and record_429(backoff_seconds).          *)
(*   Spec         one run of main(): the coordinator (main_async), the     *)
(*                fetch_single workers of each batch, the shared limiter   *)
(*                and semaphore, the results buffer and the output file.   *)
(*                                                                         *)
(* Time.  time.time() is the variable now, counted in ticks.  One tick is  *)
(* 1 / (TokenScale * Rate) seconds, so that the bucket refills exactly one *)
(* token unit per tick; tokens are counted in units of 1 / TokenScale of a *)
(* token, so that the half-rate deduction of record_429 is a whole number. *)
(* asyncio tasks run without preemption between two awaits: every action  *)
(* below is the code between one suspension point and the next.            *)
(***************************************************************************)
EXTENDS Integers, Sequences, FiniteSets, TLC

(* ------------------------------ bounds -------------------------------- *)

\* CONFIG["requests_per_second"], scaled down (whole requests per second).
Rate == 1
\* Number of tasks driving the limiter in SpecLimiter.
NumClients == 3
\* acquire() calls begun in one behaviour of SpecLimiter.
MaxCalls == 4
\* record_429 calls in one behaviour of SpecLimiter.
Max429 == 2
\* The clock advances freely up to MaxTime ticks; past it, it only jumps to
\* the next wake-up time of a sleeping task.
MaxTime == 3

\* Valid identifiers in the input file, at most.
NumRecords == 3
\* CONFIG["batch_size"], scaled down.
BatchSize == 2
\* CONFIG["concurrent_requests"], scaled down.
ConcurrentRequests == 1
\* CONFIG["max_retries"], scaled down.
MaxRetries == 1
\* Output-file operations that fail in one run, at most.
MaxWriteFailures == 1
\* 429 responses the server sends in one run, at most.
MaxThrottled == 1
\* In Spec the clock advances freely up to RunMaxTime ticks; past it, it only
\* jumps to the next wake-up time of a sleeping task.
RunMaxTime == 0
\* The health check of main_async runs every HealthCheckEvery results
\* (500 in the source), scaled down.
HealthCheckEvery == 2

\* Digits in a first cell of the input file, at most.
MaxDigits == 12
\* Lines in the input file, at most.
MaxLines == 3

(* ------------------------- units and helpers -------------------------- *)

TokenScale == 2
OneToken == TokenScale
TicksPerSecond == TokenScale * Rate

Min(a, b) == IF a <= b THEN a ELSE b
Max(a, b) == IF a >= b THEN a ELSE b
SetMax(S) == CHOOSE x \in S : \A y \in S : y <= x
SetMin(S) == CHOOSE x \in S : \A y \in S : x <= y

(* ============================ RateLimiter ============================= *)

\* self.capacity = max(self.rate, 1.0), in token units.
Capacity == Max(Rate, 1) * TokenScale

\* The backoff_seconds values the tasks of SpecLimiter pass to record_429.
Backoffs == {1, 3}

VARIABLES
    now,             \* time.time(), in ticks
    tokens,          \* RateLimiter.tokens, in token units
    updated_at,      \* RateLimiter.updated_at
    cooldown_until,  \* RateLimiter.cooldown_until
    cpc,             \* SpecLimiter: where each task is inside acquire()
    cwake,           \* SpecLimiter: when the task's asyncio.sleep is over
    ccall,           \* SpecLimiter: the acquire() call a task is making
    ncalls,          \* history: acquire() calls begun
    n429,            \* history: record_429 calls made
    maxDeadline,     \* history: the latest t + B of any record_429(B) at t
    returned,        \* history: the acquire() call that has just returned
    grants,          \* history: the times at which acquire() calls returned
    mpc,             \* Spec: where main() / main_async() is
    mwake,           \* Spec: when the coordinator's asyncio.sleep is over
    phone_numbers,   \* the list read_numbers() returned
    i,               \* main_async: offset of the current batch
    results_buffer,  \* the global results_buffer
    stats,           \* the global stats counters
    output,          \* the file CONFIG["output_file"]
    semaphore,       \* asyncio.Semaphore: free slots
    wpc,             \* where each fetch_single task of the batch is
    wwake,           \* when the task's asyncio.sleep is over
    attempt,         \* fetch_single: the loop variable attempt
    result,          \* what each task handed to asyncio.gather
    spc,             \* save_batch: position inside the call
    swritten,        \* save_batch: rows written by writerows so far
    aborted,         \* "no", or how the run was cut short ("kb", "fatal")
    failures,        \* history: output-file operations that failed
    save_failed,     \* history: the last save_batch call ended in its except
    atAbort,         \* history: the results_buffer when the run was cut short
    response         \* history: the response a fetch_single task has just got

limiterVars == <<tokens, updated_at, cooldown_until>>
clientVars == <<cpc, cwake, ccall, ncalls, n429, maxDeadline, returned,
                grants>>
workerVars == <<semaphore, wpc, wwake, attempt, result>>
saveVars == <<spc, swritten, save_failed, failures>>
VARIABLES
    rpc,             \* read_numbers: at the head of the loop, in its body, returned
    line,            \* read_numbers: the line the loop has read
    numbers,         \* read_numbers: the list numbers
    skipped_count,   \* read_numbers: skipped_count
    line_count,      \* read_numbers: line_count
    first_line,      \* read_numbers: first_line
    has_header,      \* read_numbers: has_header
    skipped_invalid, \* stats["skipped_invalid"]
    dataLines,       \* history: non-blank lines read that are no header
    expectedSkipped, \* history: those of them that do not clean to 10 digits
    reached          \* history: what the body made of the line just read

VARIABLES
    ppc,             \* parse_html_fast: idle, at a selector, at the default, returned
    doc,             \* the document parse_html_fast was called with
    key,             \* parse_html_fast: the field of the outer loop
    path,            \* parse_html_fast: the selector of the inner loop
    value,           \* parse_html_fast: value
    data             \* parse_html_fast: data, and what it returns

parserVars == <<ppc, doc, key, path, value, data>>

readerLocals == <<line, numbers, skipped_count, line_count, first_line,
                  has_header, skipped_invalid, dataLines, expectedSkipped,
                  reached>>
readerVars == <<rpc, readerLocals>>

runCore == <<mpc, mwake, phone_numbers, i, results_buffer, stats, output,
             workerVars, saveVars, aborted, atAbort>>
runVars == <<runCore, response, readerVars, parserVars>>
vars == <<now, limiterVars, clientVars, runVars>>

Clients == 1..NumClients

\* tokens = min(capacity, tokens + elapsed * rate): one token unit per tick.
Refilled(tok, elapsed) == Min(Capacity, tok + elapsed)

\* Mutant of DeficitSleep: the deficit is divided by twice the rate.
DeficitSleep_Halved(tok) == (OneToken - tok) \div 2

\* sleep_time = (1 - tokens) / max(rate, 1e-6), in ticks.
DeficitSleep(tok) == OneToken - tok

\* Mutant of TokensAfter429: the deduction is not floored at 0.
TokensAfter429_NoFloor(tok) == tok - (Rate * TokenScale) \div 2

\* tokens = max(0.0, tokens - rate * 0.5)
TokensAfter429(tok) == Max(0, tok - (Rate * TokenScale) \div 2)

\* cooldown_until = time.time() + float(backoff_seconds)
CooldownAfter429(t, backoffSeconds) == t + backoffSeconds * TicksPerSecond

NoCall == [no |-> 0, must |-> 0, slept |-> FALSE, sleep |-> 0]

\* The call record of an acquire() begun now.  no is the call's ordinal when
\* it is made at the instant of construction on a bucket no record_429 has
\* touched (the k-th call on a full bucket with no time elapsed), else 0;
\* must is the latest cooldown deadline t + B of a record_429(B) made at
\* t <= now that is still ahead, else 0; slept and sleep describe the
\* token-deficit wait of the call.
NewCall ==
    [no |-> IF now = 0 /\ n429 = 0 THEN ncalls + 1 ELSE 0,
     must |-> IF maxDeadline > now THEN maxDeadline ELSE 0,
     slept |-> FALSE, sleep |-> 0]

\* Lines 499-511 of acquire(): refill, then either take one token (granted)
\* or find tokens < 1 and ask for asyncio.sleep(sleep_time).
RefillAndTake(tok, upd, t) ==
    LET r == Refilled(tok, t - upd) IN
    IF r < OneToken
    THEN [tokens |-> r, updated_at |-> t, granted |-> FALSE,
          sleep |-> DeficitSleep(r)]
    ELSE [tokens |-> r - OneToken, updated_at |-> t, granted |-> TRUE,
          sleep |-> 0]

\* Lines 507-511 of acquire(), after the token-deficit sleep: the bucket
\* snaps to full and one token is taken.
TokensAfterDeficit == Capacity - OneToken

\* Lines 499-512 for task c of SpecLimiter.
ClientRefillAndTake(c, call) ==
    LET r == RefillAndTake(tokens, updated_at, now) IN
    /\ tokens' = r.tokens
    /\ updated_at' = r.updated_at
    /\ UNCHANGED cooldown_until
    /\ IF r.granted
       THEN /\ cpc' = [cpc EXCEPT ![c] = "idle"]
            /\ cwake' = [cwake EXCEPT ![c] = 0]
            /\ ccall' = [ccall EXCEPT ![c] = NoCall]
            /\ returned' = call
            /\ grants' = Append(grants, now)
       ELSE /\ cpc' = [cpc EXCEPT ![c] = "deficit"]
            /\ cwake' = [cwake EXCEPT ![c] = now + r.sleep]
            /\ ccall' = [ccall EXCEPT ![c] =
                            [call EXCEPT !.slept = TRUE, !.sleep = r.sleep]]
            /\ returned' = NoCall
            /\ UNCHANGED grants

\* acquire(), from its entry to its first suspension or its return.
AcquireEnter(c) ==
    /\ cpc[c] = "idle"
    /\ ncalls < MaxCalls
    /\ ncalls' = ncalls + 1
    /\ UNCHANGED <<now, n429, maxDeadline, runVars>>
    /\ IF now < cooldown_until
       THEN /\ cpc' = [cpc EXCEPT ![c] = "cooldown"]
            /\ cwake' = [cwake EXCEPT ![c] = cooldown_until]
            /\ ccall' = [ccall EXCEPT ![c] = NewCall]
            /\ returned' = NoCall
            /\ UNCHANGED <<limiterVars, grants>>
       ELSE ClientRefillAndTake(c, NewCall)

\* acquire() resumed after the cooldown sleep (lines 497-512).
AcquireAfterCooldown(c) ==
    /\ cpc[c] = "cooldown"
    /\ now >= cwake[c]
    /\ UNCHANGED <<now, ncalls, n429, maxDeadline, runVars>>
    /\ ClientRefillAndTake(c, ccall[c])

\* acquire() resumed after the token-deficit sleep (lines 507-512): the
\* bucket snaps to full, one token is deducted, the call returns.
AcquireAfterDeficit(c) ==
    /\ cpc[c] = "deficit"
    /\ now >= cwake[c]
    /\ tokens' = TokensAfterDeficit
    /\ updated_at' = now
    /\ cpc' = [cpc EXCEPT ![c] = "idle"]
    /\ cwake' = [cwake EXCEPT ![c] = 0]
    /\ ccall' = [ccall EXCEPT ![c] = NoCall]
    /\ returned' = ccall[c]
    /\ grants' = Append(grants, now)
    /\ UNCHANGED <<now, cooldown_until, ncalls, n429, maxDeadline, runVars>>

\* record_429(backoff_seconds), called by a task that is not inside acquire().
Record429(c, b) ==
    /\ cpc[c] = "idle"
    /\ n429 < Max429
    /\ cooldown_until' = CooldownAfter429(now, b)
    /\ tokens' = TokensAfter429(tokens)
    /\ n429' = n429 + 1
    /\ maxDeadline' = Max(maxDeadline, now + b * TicksPerSecond)
    /\ returned' = NoCall
    /\ UNCHANGED <<now, updated_at, cpc, cwake, ccall, ncalls, grants,
                   runVars>>

\* The wake-up times of the tasks asleep in SpecLimiter.
ClientWakes == {cwake[c] : c \in {d \in Clients : cpc[d] # "idle"}}

\* Time passes: one tick while now < MaxTime, and always on to the next
\* wake-up time still ahead.
LimiterTick ==
    /\ \/ /\ now < MaxTime
          /\ now' = now + 1
       \/ /\ now >= MaxTime
          /\ \E w \in ClientWakes : w > now
          /\ now' = SetMin({w \in ClientWakes : w > now})
    /\ returned' = NoCall
    /\ UNCHANGED <<limiterVars, cpc, cwake, ccall, ncalls, n429, maxDeadline,
                   grants, runVars>>

(* ================================ the run ============================== *)

Slots == 1..BatchSize

\* The lists read_numbers() can return: valid identifiers, here 1, 2, ...
InputLists == {[k \in 1..n |-> k] : n \in 0..NumRecords}

\* A row written by an earlier run of the program on the same output file.
EarlierRow == [phone_number |-> 0, reputation |-> "Scam Likely"]
AbsentFile == [exists |-> FALSE, headers |-> 0, rows |-> <<>>]
EarlierFile == [exists |-> TRUE, headers |-> 1, rows |-> <<EarlierRow>>]

\* if len(html_content) < 1000
MinBodyLength == 1000
\* record_429(self, backoff_seconds: float = 10.0)
Default429Backoff == 10
\* await asyncio.sleep(10) after a failed health check
HealthPause == 10

\* What one session.get can come to: an HTTP response (status and, for a
\* 200, the body: whether it holds a block indicator, its length, and the
\* reputation parse_html_fast extracts from it), a timeout
\* (asyncio.TimeoutError), a failed connection (ClientConnectorError) or
\* another exception.
Http(status) == [kind |-> "http", status |-> status, indicator |-> "",
                 length |-> 0, parsed |-> ""]
\* The block indicator a body holds, as it is written in the body: none, one
\* in lower case, one in upper case.
IndicatorTexts == {"", "captcha", "CAPTCHA"}
Bodies == [kind : {"http"}, status : {200}, indicator : IndicatorTexts,
           length : {MinBodyLength - 1, MinBodyLength},
           parsed : {"Scam Likely", "Not Found"}]
Failure(kind) == [kind |-> kind, status |-> 0, indicator |-> "",
                  length |-> 0, parsed |-> ""]
Responses == Bodies \cup {Http(403), Http(429), Http(404), Http(500)}
                    \cup {Failure("timeout"), Failure("connector"),
                          Failure("other")}

\* No task has got a response in the last step.
NoResponse == [j |-> 0, r |-> Failure("none")]

\* Mutant of Caught: fetch_single without its last clause, except Exception.
Caught_NoGeneric(kind) == kind \in {"timeout", "connector"}

\* Lines 655-660: the except clauses around the request.
Caught(kind) == kind \in {"timeout", "connector", "other"}

\* f"HTTP {response.status}"
HttpReputation(status) == IF status = 404 THEN "HTTP 404" ELSE "HTTP 4xx"

Final(reputation, counter) ==
    [verdict |-> "final", reputation |-> reputation, counter |-> counter]
Verdict(v) == [verdict |-> v, reputation |-> "", counter |-> "none"]

\* Mutant of ClientError: no status is kept from the retries.
ClientError_None(status) == FALSE

\* Line 643: if 400 <= response.status < 500 and response.status != 429
ClientError(status) == 400 <= status /\ status < 500 /\ status # 429

\* block_indicators (line 599), all in lower case; one stands for the list.
BlockIndicators == {"captcha"}

\* html_content.lower(), on the indicator text of the body.
Lower(text) == IF text = "CAPTCHA" THEN "captcha" ELSE text

\* Line 606: any(indicator in content_lower for indicator in block_indicators)
HasBlockIndicator(r) == Lower(r.indicator) \in BlockIndicators

\* Mutant of ClassifyBody: the length is tested before the indicators.
ClassifyBody_LengthFirst(r) ==
    IF r.length < MinBodyLength THEN Final("Empty Response", "failed")
    ELSE IF HasBlockIndicator(r) THEN Final("Blocked", "failed")
    ELSE IF r.parsed \notin {"Parse Error", "Not Found", ""}
    THEN Final(r.parsed, "success")
    ELSE Final(r.parsed, "none")

\* Lines 595-639: a 200 response; the block indicators, then the length of
\* the body, then parse_html_fast.
ClassifyBody(r) ==
    IF HasBlockIndicator(r) THEN Final("Blocked", "failed")
    ELSE IF r.length < MinBodyLength THEN Final("Empty Response", "failed")
    ELSE IF r.parsed \notin {"Parse Error", "Not Found", ""}
    THEN Final(r.parsed, "success")
    ELSE Final(r.parsed, "none")

\* Lines 564-660 of fetch_single: what one attempt's response leads to.
\* final: return that outcome; throttle: the 429 branch; retry: fall
\* through to the retry delay; raise: the exception leaves fetch_single.
Classify(r) ==
    IF r.kind # "http"
    THEN IF Caught(r.kind) THEN Verdict("retry") ELSE Verdict("raise")
    ELSE IF r.status = 403 THEN Final("Blocked", "failed")
    ELSE IF r.status = 429 THEN Verdict("throttle")
    ELSE IF r.status = 200 THEN ClassifyBody(r)
    ELSE IF ClientError(r.status)
    THEN Final(HttpReputation(r.status), "failed")
    ELSE Verdict("retry")

\* stats[counter] += 1
Bump(st, counter) ==
    IF counter = "none" THEN st ELSE [st EXCEPT ![counter] = @ + 1]

\* Shortest sleeps, in ticks.  A task may always wake later than asked, so
\* the longer values of the random draws are covered by a late wake-up.
\* random.uniform(0.1, 0.5)
HumanDelay == TicksPerSecond \div 10
\* min(2 ** (attempt + 1), 60) * random.uniform(0.5, 1.5)
BackoffWait(a) == (Min(2 ^ (a + 1), 60) * TicksPerSecond) \div 2
\* The longest wait of the 429 branch: jitter 1.5.
BackoffWaitMax(a) == (3 * Min(2 ^ (a + 1), 60) * TicksPerSecond) \div 2
\* random.uniform(1, 4) * (attempt + 1)
RetryDelay(a) == (a + 1) * TicksPerSecond
\* random.uniform(0.5, 1.5) between batches
BatchDelay == TicksPerSecond \div 2

\* batch = phone_numbers[i:i + CONFIG["batch_size"]]
Batch == SubSeq(phone_numbers, i + 1, Min(i + BatchSize, Len(phone_numbers)))

NoResult == [kind |-> "none", phone_number |-> 0, reputation |-> ""]
Raised == [kind |-> "exception", phone_number |-> 0, reputation |-> ""]
Row(p, reputation) ==
    [kind |-> "row", phone_number |-> p, reputation |-> reputation]

(* --------------------------- fetch_single ----------------------------- *)

coordVars == <<mpc, mwake, phone_numbers, i, results_buffer, output,
               saveVars, aborted, atAbort>>

\* Task j moves to position pc, asleep until wake (0: not asleep).
Goto(j, pc, wake) ==
    /\ wpc' = [wpc EXCEPT ![j] = pc]
    /\ wwake' = [wwake EXCEPT ![j] = wake]

\* Lines 544-561: acquire() has returned; with the 20% chance the task
\* sleeps the human-like delay, then it issues the first request.
AfterAcquire(j, human) ==
    IF human THEN Goto(j, "human", now + HumanDelay)
             ELSE Goto(j, "request", 0)

\* Line 542: rate_limiter.acquire() from its entry to its first suspension
\* or its return.
WorkerAcquire(j, human) ==
    IF now < cooldown_until
    THEN /\ Goto(j, "cooldown", cooldown_until)
         /\ UNCHANGED limiterVars
    ELSE LET r == RefillAndTake(tokens, updated_at, now) IN
         /\ tokens' = r.tokens
         /\ updated_at' = r.updated_at
         /\ UNCHANGED cooldown_until
         /\ IF r.granted THEN AfterAcquire(j, human)
                         ELSE Goto(j, "deficit", now + r.sleep)

\* Mutant of Finish: the task returns without releasing its slot.
Finish_NoRelease(j, res) ==
    /\ Goto(j, "done", 0)
    /\ result' = [result EXCEPT ![j] = res]
    /\ UNCHANGED semaphore

\* The task returns (or raises): asyncio.gather has its result and the
\* async with releases the semaphore slot.
Finish(j, res) ==
    /\ Goto(j, "done", 0)
    /\ result' = [result EXCEPT ![j] = res]
    /\ semaphore' = semaphore + 1

\* Mutant of AttemptsLeft: the loop runs one iteration more.
AttemptsLeft_OneMore(a) == a <= MaxRetries

\* Lines 551 and 663: for attempt in range(max_retries + 1) has another
\* iteration after attempt a, and the retry delay is slept, iff
\* a < max_retries.
AttemptsLeft(a) == a < MaxRetries

\* Lines 667-678: all retries failed.
Exhausted(j) ==
    /\ Finish(j, Row(Batch[j], "Error"))
    /\ stats' = Bump(stats, "failed")

\* Mutant of SlotFree: the gate admits a task whatever its count.
SlotFree_Always(free) == TRUE

\* Line 540, async with semaphore: asyncio.Semaphore admits a task while its
\* count is above 0.
SlotFree(free) == free > 0

\* The tasks start in the order gather created them.  async with semaphore:
\* a free slot is taken at once, else the task waits for one.
WStart(j, human) ==
    /\ response' = NoResponse
    /\ UNCHANGED <<readerVars, parserVars>>
    /\ mpc = "gather"
    /\ UNCHANGED <<coordVars, clientVars>>
    /\ wpc[j] = "ready"
    /\ \A k \in Slots : k < j => wpc[k] # "ready"
    /\ IF SlotFree(semaphore)
       THEN /\ semaphore' = semaphore - 1
            /\ WorkerAcquire(j, human)
       ELSE /\ Goto(j, "sem", 0)
            /\ UNCHANGED <<semaphore, limiterVars>>
    /\ UNCHANGED <<now, attempt, result, stats>>

\* A waiting task gets the slot another task released.
WSemaphore(j, human) ==
    /\ response' = NoResponse
    /\ UNCHANGED <<readerVars, parserVars>>
    /\ mpc = "gather"
    /\ UNCHANGED <<coordVars, clientVars>>
    /\ wpc[j] = "sem"
    /\ SlotFree(semaphore)
    /\ semaphore' = semaphore - 1
    /\ WorkerAcquire(j, human)
    /\ UNCHANGED <<now, attempt, result, stats>>

\* acquire() resumed after the cooldown sleep (lines 497-512).
WAfterCooldown(j, human) ==
    /\ response' = NoResponse
    /\ UNCHANGED <<readerVars, parserVars>>
    /\ mpc = "gather"
    /\ UNCHANGED <<coordVars, clientVars>>
    /\ wpc[j] = "cooldown"
    /\ now >= wwake[j]
    /\ LET r == RefillAndTake(tokens, updated_at, now) IN
       /\ tokens' = r.tokens
       /\ updated_at' = r.updated_at
       /\ IF r.granted THEN AfterAcquire(j, human)
                       ELSE Goto(j, "deficit", now + r.sleep)
    /\ UNCHANGED <<now, cooldown_until, semaphore, attempt, result, stats>>

\* acquire() resumed after the token-deficit sleep (lines 507-512).
WAfterDeficit(j, human) ==
    /\ response' = NoResponse
    /\ UNCHANGED <<readerVars, parserVars>>
    /\ mpc = "gather"
    /\ UNCHANGED <<coordVars, clientVars>>
    /\ wpc[j] = "deficit"
    /\ now >= wwake[j]
    /\ tokens' = TokensAfterDeficit
    /\ updated_at' = now
    /\ AfterAcquire(j, human)
    /\ UNCHANGED <<now, cooldown_until, semaphore, attempt, result, stats>>

\* The human-like delay is over: the first request goes out.
WAfterHuman(j) ==
    /\ response' = NoResponse
    /\ UNCHANGED <<readerVars, parserVars>>
    /\ mpc = "gather"
    /\ UNCHANGED <<coordVars, clientVars>>
    /\ wpc[j] = "human"
    /\ now >= wwake[j]
    /\ Goto(j, "request", 0)
    /\ UNCHANGED <<now, limiterVars, semaphore, attempt, result, stats>>

\* The request of the current attempt comes to r (lines 557-665).
WResponse(j, r) ==
    /\ response' = [j |-> j, r |-> r]
    /\ UNCHANGED <<readerVars, parserVars>>
    /\ mpc = "gather"
    /\ UNCHANGED <<coordVars, clientVars>>
    /\ wpc[j] = "request"
    /\ (r.kind = "http" /\ r.status = 429) => stats.rate_limited < MaxThrottled
    /\ LET c == Classify(r) IN
       CASE c.verdict = "final" ->
              /\ Finish(j, Row(Batch[j], c.reputation))
              /\ stats' = Bump(stats, c.counter)
              /\ UNCHANGED <<limiterVars, attempt>>
         [] c.verdict = "raise" ->
              /\ Finish(j, Raised)
              /\ UNCHANGED <<limiterVars, attempt, stats>>
         [] c.verdict = "throttle" ->
              /\ stats' = Bump(stats, "rate_limited")
              /\ cooldown_until' = CooldownAfter429(now, Default429Backoff)
              /\ tokens' = TokensAfter429(tokens)
              /\ Goto(j, "backoff", now + BackoffWait(attempt[j]))
              /\ UNCHANGED <<updated_at, semaphore, attempt, result>>
         [] c.verdict = "retry" ->
              IF AttemptsLeft(attempt[j])
              THEN /\ Goto(j, "retry", now + RetryDelay(attempt[j]))
                   /\ UNCHANGED <<limiterVars, semaphore, attempt, result,
                                  stats>>
              ELSE /\ Exhausted(j)
                   /\ UNCHANGED <<limiterVars, attempt>>
    /\ UNCHANGED now

\* The sleep of the 429 branch is over: continue, that is the next attempt
\* if one remains, else the code after the loop.
WAfterBackoff(j) ==
    /\ response' = NoResponse
    /\ UNCHANGED <<readerVars, parserVars>>
    /\ mpc = "gather"
    /\ UNCHANGED <<coordVars, clientVars>>
    /\ wpc[j] = "backoff"
    /\ now >= wwake[j]
    /\ IF AttemptsLeft(attempt[j])
       THEN /\ attempt' = [attempt EXCEPT ![j] = @ + 1]
            /\ Goto(j, "request", 0)
            /\ UNCHANGED <<semaphore, result, stats>>
       ELSE /\ Exhausted(j)
            /\ UNCHANGED attempt
    /\ UNCHANGED <<now, limiterVars>>

\* The retry delay is over: the next attempt's request goes out.
WAfterRetry(j) ==
    /\ response' = NoResponse
    /\ UNCHANGED <<readerVars, parserVars>>
    /\ mpc = "gather"
    /\ UNCHANGED <<coordVars, clientVars>>
    /\ wpc[j] = "retry"
    /\ now >= wwake[j]
    /\ attempt' = [attempt EXCEPT ![j] = @ + 1]
    /\ Goto(j, "request", 0)
    /\ UNCHANGED <<now, limiterVars, semaphore, result, stats>>

(* ----------------------------- save_batch ----------------------------- *)

\* Mutant of HeaderNeeded: every flush writes the header.
HeaderNeeded_Always(fileExists) == TRUE

\* Line 468: if not file_exists
HeaderNeeded(fileExists) == ~fileExists

\* Mutant of OpenForAppend: the file is opened with mode 'w'.
OpenTruncating(f, fileExists) ==
    [exists |-> TRUE, headers |-> IF HeaderNeeded(fileExists) THEN 1 ELSE 0,
     rows |-> <<>>]

\* Lines 465-469: open(..., 'a') creates the file if need be and keeps what
\* it holds; writeheader() adds the header row.
OpenForAppend(f, fileExists) ==
    [f EXCEPT !.exists = TRUE,
              !.headers = IF HeaderNeeded(fileExists) THEN @ + 1 ELSE @]

\* Lines 457-462: the file exists if it can be opened for reading.
FileExists(f) == f.exists

\* Mutant of BufferFull: the threshold is tested with >.
BufferFull_Strict(buf) == Len(buf) > BatchSize

\* Line 769: len(results_buffer) >= CONFIG["batch_size"]
BufferFull(buf) == Len(buf) >= BatchSize

\* Where main_async goes on after the threshold check (lines 772-782): the
\* delay between batches, or out of the loop and of the session.
AfterBatch == IF i + BatchSize < Len(phone_numbers) THEN "delay" ELSE "close"

\* save_batch() is called with results_buffer buf; after it returns the
\* caller goes on at position next.  Line 452: an empty buffer returns at once.
CallSaveBatch(buf, next) ==
    IF buf = <<>>
    THEN /\ mpc' = next
         /\ UNCHANGED spc
    ELSE /\ mpc' = "save"
         /\ spc' = [at |-> "open", next |-> next]

\* Lines 456-469: the existence check, the open for append and the header.
SaveOpen ==
    /\ response' = NoResponse
    /\ UNCHANGED <<readerVars, parserVars>>
    /\ mpc = "save"
    /\ spc.at = "open"
    /\ output' = OpenForAppend(output, FileExists(output))
    /\ spc' = [spc EXCEPT !.at = "rows"]
    /\ swritten' = 0
    /\ UNCHANGED <<now, limiterVars, clientVars, workerVars, mpc, mwake,
                   phone_numbers, i, results_buffer, stats, save_failed,
                   failures, aborted, atAbort>>

\* Line 471: writerows writes the next row of the buffer.
SaveRow ==
    /\ response' = NoResponse
    /\ UNCHANGED <<readerVars, parserVars>>
    /\ mpc = "save"
    /\ spc.at = "rows"
    /\ swritten < Len(results_buffer)
    /\ output' = [output EXCEPT !.rows = Append(@, results_buffer[swritten + 1])]
    /\ swritten' = swritten + 1
    /\ UNCHANGED <<now, limiterVars, clientVars, workerVars, mpc, mwake,
                   phone_numbers, i, results_buffer, stats, spc, save_failed,
                   failures, aborted, atAbort>>

\* Lines 472-474: the file is closed, the buffer cleared; save_batch returns.
SaveClear ==
    /\ response' = NoResponse
    /\ UNCHANGED <<readerVars, parserVars>>
    /\ mpc = "save"
    /\ spc.at = "rows"
    /\ swritten = Len(results_buffer)
    /\ results_buffer' = <<>>
    /\ mpc' = spc.next
    /\ spc' = [at |-> "none", next |-> "none"]
    /\ swritten' = 0
    /\ save_failed' = FALSE
    /\ UNCHANGED <<now, limiterVars, clientVars, workerVars, mwake,
                   phone_numbers, i, stats, output, failures, aborted,
                   atAbort>>

\* Lines 476-477: opening or writing the file raises; the except logs it and
\* save_batch returns with the buffer as it was.
SaveFail ==
    /\ response' = NoResponse
    /\ UNCHANGED <<readerVars, parserVars>>
    /\ mpc = "save"
    /\ failures < MaxWriteFailures
    /\ failures' = failures + 1
    /\ save_failed' = TRUE
    /\ mpc' = spc.next
    /\ spc' = [at |-> "none", next |-> "none"]
    /\ swritten' = 0
    /\ UNCHANGED <<now, limiterVars, clientVars, workerVars, mwake,
                   phone_numbers, i, results_buffer, stats, output, aborted,
                   atAbort>>

(* --------------------------- main_async, main -------------------------- *)

\* The tasks of the batch are over (gather has returned, or asyncio.run has
\* cancelled them): their locals are gone.
NoTasks ==
    /\ wpc' = [j \in Slots |-> "none"]
    /\ wwake' = [j \in Slots |-> 0]
    /\ attempt' = [j \in Slots |-> 0]
    /\ result' = [j \in Slots |-> NoResult]

\* Lines 688-691: one task per number of the batch.
Launch ==
    /\ mpc' = "gather"
    /\ wpc' = [j \in Slots |-> IF j <= Len(Batch) THEN "ready" ELSE "none"]
    /\ wwake' = [j \in Slots |-> 0]
    /\ attempt' = [j \in Slots |-> 0]
    /\ result' = [j \in Slots |-> NoResult]

\* Mutant of ReadResult: a failed read returns what it had gathered.
ReadResult_Partial(ok, nums) == nums

\* Lines 317-324: read_numbers() returns numbers, and [] from its except
\* clauses when the file could not be opened or read.
ReadResult(ok, nums) == IF ok THEN nums ELSE <<>>

\* Lines 716-742: read_numbers() has read nums and ends well (ok) or in an
\* except clause; an empty list ends the run, else the limiter and the
\* semaphore are made and the session is opened.
MRead(nums, ok) ==
    /\ response' = NoResponse
    /\ rpc' = IF ok THEN "returned" ELSE "failed"
    /\ UNCHANGED <<readerLocals, parserVars>>
    /\ mpc = "read"
    /\ phone_numbers' = ReadResult(ok, nums)
    /\ IF ReadResult(ok, nums) = <<>>
       THEN /\ mpc' = "done"
            /\ UNCHANGED <<limiterVars, semaphore>>
       ELSE /\ mpc' = "batch"
            /\ tokens' = Capacity
            /\ updated_at' = now
            /\ cooldown_until' = 0
            /\ semaphore' = ConcurrentRequests
    /\ UNCHANGED <<now, clientVars, mwake, i, results_buffer, stats, output,
                   wpc, wwake, attempt, result, saveVars, aborted, atAbort>>

\* Lines 747-762: the head of the loop; every HealthCheckEvery results the
\* health check is awaited first, else process_batch starts the tasks.
MBatch ==
    /\ response' = NoResponse
    /\ UNCHANGED <<readerVars, parserVars>>
    /\ mpc = "batch"
    /\ IF stats.total > 0 /\ stats.total % HealthCheckEvery = 0
       THEN /\ mpc' = "health"
            /\ UNCHANGED <<wpc, wwake, attempt, result>>
       ELSE Launch
    /\ UNCHANGED <<now, limiterVars, clientVars, mwake, phone_numbers, i,
                   results_buffer, stats, output, semaphore, saveVars,
                   aborted, atAbort>>

\* Lines 757-762: health_check answers; a failed check pauses the run.
MHealth(ok) ==
    /\ response' = NoResponse
    /\ UNCHANGED <<readerVars, parserVars>>
    /\ mpc = "health"
    /\ IF ok
       THEN /\ Launch
            /\ UNCHANGED mwake
       ELSE /\ mpc' = "pause"
            /\ mwake' = now + HealthPause * TicksPerSecond
            /\ UNCHANGED <<wpc, wwake, attempt, result>>
    /\ UNCHANGED <<now, limiterVars, clientVars, phone_numbers, i,
                   results_buffer, stats, output, semaphore, saveVars,
                   aborted, atAbort>>

\* The pause after a failed health check is over.
MAfterPause ==
    /\ response' = NoResponse
    /\ UNCHANGED <<readerVars, parserVars>>
    /\ mpc = "pause"
    /\ now >= mwake
    /\ Launch
    /\ mwake' = 0
    /\ UNCHANGED <<now, limiterVars, clientVars, phone_numbers, i,
                   results_buffer, stats, output, semaphore, saveVars,
                   aborted, atAbort>>

\* Lines 697-700 of process_batch: the results that are no exceptions, in
\* the order of the tasks.
ValidResults ==
    LET F[n \in 0..BatchSize] ==
            IF n = 0 THEN <<>>
            ELSE IF n <= Len(Batch) /\ result[n].kind # "exception"
                 THEN Append(F[n - 1], result[n])
                 ELSE F[n - 1]
    IN F[BatchSize]

\* Mutant of BatchResolved: gather returns with the first result.
BatchResolved_AnyDone ==
    mpc = "gather" /\ \E j \in Slots : wpc[j] = "done"

\* Line 694: await asyncio.gather(*tasks) returns when it has the result of
\* every task of the batch.
BatchResolved ==
    mpc = "gather" /\ \A j \in Slots : j <= Len(Batch) => wpc[j] = "done"

\* Lines 694-770: gather has every task's result; process_batch returns the
\* valid ones, main_async extends the buffer, adds to stats["total"] and
\* calls save_batch if the buffer is full.
MCollect ==
    /\ response' = NoResponse
    /\ UNCHANGED <<readerVars, parserVars>>
    /\ BatchResolved
    /\ LET buf == results_buffer \o ValidResults IN
       /\ results_buffer' = buf
       /\ stats' = [stats EXCEPT !.total = @ + Len(ValidResults)]
       /\ IF BufferFull(buf)
          THEN CallSaveBatch(buf, AfterBatch)
          ELSE /\ mpc' = AfterBatch
               /\ UNCHANGED spc
    /\ NoTasks
    /\ mwake' = IF AfterBatch = "delay" THEN now + BatchDelay ELSE 0
    /\ UNCHANGED <<now, limiterVars, clientVars, phone_numbers, i, output,
                   semaphore, swritten, save_failed, failures, aborted,
                   atAbort>>

\* Lines 780-781: the delay between batches is over; the next batch.
MDelay ==
    /\ response' = NoResponse
    /\ UNCHANGED <<readerVars, parserVars>>
    /\ mpc = "delay"
    /\ now >= mwake
    /\ i' = i + BatchSize
    /\ mpc' = "batch"
    /\ mwake' = 0
    /\ UNCHANGED <<now, limiterVars, clientVars, phone_numbers,
                   results_buffer, stats, output, workerVars, saveVars,
                   aborted, atAbort>>

\* Lines 782-785: the session is closed; what is left in the buffer is
\* saved and main_async returns.
MClose ==
    /\ response' = NoResponse
    /\ UNCHANGED <<readerVars, parserVars>>
    /\ mpc = "close"
    /\ CallSaveBatch(results_buffer, "done")
    /\ UNCHANGED <<now, limiterVars, clientVars, mwake, phone_numbers, i,
                   results_buffer, stats, output, workerVars, swritten,
                   save_failed, failures, aborted, atAbort>>

\* Lines 823-836 of main: the run is cut short, by KeyboardInterrupt (how =
\* "kb": at any point, inside save_batch too, which does not catch it) or by
\* an exception out of main_async (how = "fatal": at one of its awaits).
\* asyncio.run cancels the tasks; the handler saves what the buffer holds.
Abort(how) ==
    /\ response' = NoResponse
    /\ UNCHANGED <<readerVars, parserVars>>
    /\ aborted = "no"
    /\ IF how = "kb" THEN mpc # "done"
       ELSE mpc \in {"batch", "health", "pause", "gather", "delay", "close"}
    /\ aborted' = how
    /\ atAbort' = results_buffer
    /\ CallSaveBatch(results_buffer, "done")
    /\ swritten' = 0
    /\ NoTasks
    /\ UNCHANGED <<now, limiterVars, clientVars, mwake, phone_numbers, i,
                   results_buffer, stats, output, semaphore, save_failed,
                   failures>>

\* The wake-up times of the tasks asleep in Spec.
RunWakes ==
    {wwake[j] : j \in {k \in Slots : wpc[k] \in
                         {"cooldown", "deficit", "human", "backoff", "retry"}}}
    \cup (IF mpc \in {"pause", "delay"} THEN {mwake} ELSE {})

\* Time passes: one tick while now < RunMaxTime, and always on to the next
\* wake-up time still ahead.
Tick ==
    /\ mpc # "done"
    /\ \/ /\ now < RunMaxTime
          /\ now' = now + 1
       \/ /\ now >= RunMaxTime
          /\ \E w \in RunWakes : w > now
          /\ now' = SetMin({w \in RunWakes : w > now})
    /\ response' = NoResponse
    /\ UNCHANGED <<readerVars, parserVars>>
    /\ UNCHANGED <<limiterVars, clientVars, runCore>>

(* ============================ read_numbers ============================ *)

\* len(cleaned) == 10: a valid US number
NumberLength == 10
\* len(cleaned) == 11: a number with the country code 1 in front
CountryLength == 11
\* len(first_cell) < 7: too short for a phone number
MinCellLength == 7

\* Characters, as one-character strings; a line is a sequence of them.
DigitChars == {"0", "1", "2", "3", "4", "5", "6", "7", "8", "9"}
AlphaChars == {"a", "x", "P"}
SpaceChars == {" "}

\* The first characters of the digit runs in the input, and what is put
\* into a digit run: a separator, a letter, a blank.
FirstDigits == {"1", "5"}
Inserted == {"-", "a", " "}

\* n digits: first, then 5s.
DigitRun(first, n) == [k \in 1..n |-> IF k = 1 THEN first ELSE "5"]

InsertAt(s, pos, ch) ==
    SubSeq(s, 1, pos) \o <<ch>> \o SubSeq(s, pos + 1, Len(s))

\* First cells: digit runs of 0..MaxDigits digits, plain or with one other
\* character at any place.
Cells ==
    LET runs == {DigitRun(f, n) : f \in FirstDigits, n \in 0..MaxDigits}
    IN  runs \cup UNION {{InsertAt(s, pos, ch) :
                              pos \in 0..Len(s), ch \in Inserted} :
                          s \in runs}

\* Lines of the input file: a cell, bare, quoted, indented, or followed by
\* a second column.
Lines ==
    Cells \cup {<<"'">> \o c \o <<"'">> : c \in Cells}
          \cup {<<" ">> \o c : c \in Cells}
          \cup {c \o <<",", "x">> : c \in Cells}

RECURSIVE StripLeft(_, _)
StripLeft(s, chars) ==
    IF s # <<>> /\ Head(s) \in chars THEN StripLeft(Tail(s), chars) ELSE s

RECURSIVE StripRight(_, _)
StripRight(s, chars) ==
    IF s # <<>> /\ s[Len(s)] \in chars
    THEN StripRight(SubSeq(s, 1, Len(s) - 1), chars)
    ELSE s

\* str.strip(chars)
Strip(s, chars) == StripRight(StripLeft(s, chars), chars)

\* line.split(',')[0]
RECURSIVE FirstField(_)
FirstField(s) ==
    IF s = <<>> \/ Head(s) = "," THEN <<>>
    ELSE <<Head(s)>> \o FirstField(Tail(s))

\* line.split(',')[0].strip().strip('"').strip("'")
FirstCell(s) ==
    Strip(Strip(Strip(FirstField(s), SpaceChars), {"\""}), {"'"})

IsDigit(ch) == ch \in DigitChars
HasDigit(s) == \E k \in DOMAIN s : s[k] \in DigitChars
HasAlpha(s) == \E k \in DOMAIN s : s[k] \in AlphaChars

\* Lines 219-231: keep the digits; drop a leading 1 of 11 digits.
clean_number(number) ==
    LET cleaned == SelectSeq(number, IsDigit) IN
    IF cleaned # <<>> /\ Head(cleaned) = "1" /\ Len(cleaned) = CountryLength
    THEN Tail(cleaned)
    ELSE cleaned

\* Lines 274-292: the first non-blank line is taken for a header.
LooksLikeHeader(first_cell) ==
    \/ HasAlpha(first_cell)
    \/ Len(first_cell) < MinCellLength
    \/ ~HasDigit(first_cell)
    \/ Len(clean_number(first_cell)) < NumberLength

\* Mutant of ValidLength: anything of 10 digits or more is taken.
ValidLength_AtLeast(cleaned) == Len(cleaned) >= NumberLength

\* Line 306: if len(cleaned) == 10
ValidLength(cleaned) == Len(cleaned) = NumberLength

\* Line 308: elif cleaned
Countable(cleaned) == cleaned # <<>>

\* What the reader makes of the line it has read.
NoLine == "none"

\* for line in f: the file has another line.
NextLine(l) ==
    /\ rpc = "loop"
    /\ line_count < MaxLines
    /\ rpc' = "body"
    /\ line' = l
    /\ line_count' = line_count + 1
    /\ reached' = NoLine
    /\ UNCHANGED <<numbers, skipped_count, first_line, has_header,
                   skipped_invalid, dataLines, expectedSkipped>>
    /\ UNCHANGED <<now, limiterVars, clientVars, runCore, response,
                   parserVars>>

\* Lines 300-311: the first column of a data line is cleaned; 10 digits are
\* appended to numbers, other digits are counted as skipped.
DataLine(stripped) ==
    LET cleaned == clean_number(FirstCell(stripped)) IN
    /\ reached' = "data"
    /\ IF ValidLength(cleaned)
       THEN /\ numbers' = Append(numbers, cleaned)
            /\ UNCHANGED skipped_count
       ELSE /\ UNCHANGED numbers
            /\ skipped_count' = IF Countable(cleaned) THEN skipped_count + 1
                                                     ELSE skipped_count

\* The header of the file, as the statement about the skipped count has it:
\* a first non-blank line whose first cell holds a letter or no digit.
IsHeaderCell(first_cell) == HasAlpha(first_cell) \/ ~HasDigit(first_cell)

\* Lines 264-311: the body of the loop for one line; the line is then done
\* with.
ProcessLine ==
    /\ rpc = "body"
    /\ rpc' = "loop"
    /\ LET stripped == Strip(line, SpaceChars)
           cell == FirstCell(stripped)
       IN  IF stripped = <<>>
           THEN /\ reached' = "blank"
                /\ UNCHANGED <<numbers, skipped_count, first_line,
                               has_header, dataLines, expectedSkipped>>
           ELSE /\ first_line' = FALSE
                /\ IF first_line /\ LooksLikeHeader(cell)
                   THEN /\ has_header' = TRUE
                        /\ reached' = "header"
                        /\ UNCHANGED <<numbers, skipped_count>>
                   ELSE /\ UNCHANGED has_header
                        /\ IF has_header /\ line_count = 1
                           THEN /\ reached' = "header"
                                /\ UNCHANGED <<numbers, skipped_count>>
                           ELSE DataLine(stripped)
                /\ IF first_line /\ IsHeaderCell(cell)
                   THEN UNCHANGED <<dataLines, expectedSkipped>>
                   ELSE /\ dataLines' = dataLines + 1
                        /\ expectedSkipped' =
                              IF Len(clean_number(cell)) = NumberLength
                              THEN expectedSkipped
                              ELSE expectedSkipped + 1
    /\ line' = <<>>
    /\ UNCHANGED <<line_count, skipped_invalid>>
    /\ UNCHANGED <<now, limiterVars, clientVars, runCore, response,
                   parserVars>>

\* Lines 313-317: the file is at its end; the count goes to
\* stats["skipped_invalid"] and numbers is returned.
ReturnNumbers ==
    /\ rpc = "loop"
    /\ rpc' = "returned"
    /\ skipped_invalid' = skipped_count
    /\ reached' = NoLine
    /\ UNCHANGED <<line, numbers, skipped_count, line_count, first_line,
                   has_header, dataLines, expectedSkipped>>
    /\ UNCHANGED <<now, limiterVars, clientVars, runCore, response,
                   parserVars>>

\* Lines 258-262 and 319-324: open() raises, or reading the next line does
\* (OSError, UnicodeDecodeError); the except clauses log it and return [].
\* stats["skipped_invalid"] is not assigned.
ReadFails ==
    /\ rpc = "loop"
    /\ rpc' = "failed"
    /\ reached' = NoLine
    /\ UNCHANGED <<line, numbers, skipped_count, line_count, first_line,
                   has_header, skipped_invalid, dataLines, expectedSkipped>>
    /\ UNCHANGED <<now, limiterVars, clientVars, runCore, response,
                   parserVars>>

\* Lines 253-260: the locals of read_numbers as the loop begins.
InitReaderState ==
    /\ rpc = "loop"
    /\ line = <<>>
    /\ numbers = <<>>
    /\ skipped_count = 0
    /\ line_count = 0
    /\ first_line = TRUE
    /\ has_header = FALSE
    /\ skipped_invalid = 0
    /\ dataLines = 0
    /\ expectedSkipped = 0
    /\ reached = NoLine

(* =========================== parse_html_fast ========================== *)

\* Candidate selectors of XPATHS["reputation"] (5 in the source) and of each
\* other field (4 in the source), scaled down.
ReputationPaths == 3
OtherPaths == 2

\* The fields of XPATHS in their order; one other field stands for the three.
KeyNames == <<"reputation", "user_reports">>
NumPaths(k) == IF KeyNames[k] = "reputation" THEN ReputationPaths ELSE OtherPaths

\* Field values are character sequences; the two literal markers and the
\* value of a field not yet set are one-element sequences.
NotFound == <<"Not Found">>
ParseError == <<"Parse Error">>
Unset == <<"unset">>

\* What tree.xpath(path) comes to: an exception, an empty result, or a
\* result whose first item has this text.
Raises == [kind |-> "raise", text |-> <<>>]
NoMatch == [kind |-> "none", text |-> <<>>]
Match(text) == [kind |-> "text", text |-> text]
PathOutcomes ==
    {Raises, NoMatch, Match(<<" ">>), Match(<<" ", "A", " ">>), Match(<<"B">>)}

\* The documents: one that html.fromstring cannot parse, and every way the
\* selectors can come out on one that it can.
NoDoc == [broken |-> FALSE, rep |-> <<>>, oth |-> <<>>]
BrokenDoc == [broken |-> TRUE, rep |-> <<>>, oth |-> <<>>]
Docs ==
    {BrokenDoc} \cup [broken : {FALSE},
                      rep : [1..ReputationPaths -> PathOutcomes],
                      oth : [1..OtherPaths -> PathOutcomes]]

\* tree.xpath(path) for selector p of field k.
PathResult(d, k, p) == IF KeyNames[k] = "reputation" THEN d.rep[p] ELSE d.oth[p]

\* Lines 411-424: the stripped text of the first item of a result.
StrippedText(o) == Strip(o.text, SpaceChars)

\* Lines 412 and 424: the selector gave a result and its text is not empty.
Yields(o) == o.kind = "text" /\ StrippedText(o) # <<>>

\* Mutant of AfterYield: the inner loop goes on after a value was found.
AfterYield_NoBreak(p, n) == p + 1

\* Lines 424-426: break leaves the inner loop, past its last selector.
AfterYield(p, n) == n + 1

\* Lines 432-434: the default of a field no selector gave a value for.
WithDefault(k, v) ==
    IF KeyNames[k] = "reputation" /\ v = <<>> THEN NotFound ELSE v

\* Lines 402-409 and 441-448: parse_html_fast is called with document d;
\* html.fromstring raises on a document it cannot parse and the outer except
\* returns the "Parse Error" record.
ParseCall(d) ==
    /\ ppc = "idle"
    /\ doc' = d
    /\ value' = <<>>
    /\ IF d.broken
       THEN /\ ppc' = "returned"
            /\ data' = [reputation |-> ParseError, user_reports |-> <<>>]
            /\ key' = 0
            /\ path' = 0
       ELSE /\ ppc' = "path"
            /\ data' = [reputation |-> Unset, user_reports |-> Unset]
            /\ key' = 1
            /\ path' = 1
    /\ UNCHANGED <<now, limiterVars, clientVars, runCore, response,
                   readerVars>>

\* Lines 410-428: one selector of the inner loop is tried.
TryPath ==
    /\ ppc = "path"
    /\ LET o == PathResult(doc, key, path) IN
       IF Yields(o)
       THEN /\ value' = StrippedText(o)
            /\ path' = AfterYield(path, NumPaths(key))
       ELSE /\ UNCHANGED value
            /\ path' = path + 1
    /\ ppc' = IF path' > NumPaths(key) THEN "default" ELSE "path"
    /\ UNCHANGED <<doc, key, data>>
    /\ UNCHANGED <<now, limiterVars, clientVars, runCore, response,
                   readerVars>>

\* Lines 430-437: the default, data[key] = value, and the next field or
\* the return of data.
EndField ==
    /\ ppc = "default"
    /\ data' = [data EXCEPT ![KeyNames[key]] = WithDefault(key, value)]
    /\ IF key < Len(KeyNames)
       THEN /\ key' = key + 1
            /\ path' = 1
            /\ value' = <<>>
            /\ ppc' = "path"
       ELSE /\ ppc' = "returned"
            /\ UNCHANGED <<key, path, value>>
    /\ UNCHANGED doc
    /\ UNCHANGED <<now, limiterVars, clientVars, runCore, response,
                   readerVars>>

\* parse_html_fast has not been called.
InitParserState ==
    /\ ppc = "idle"
    /\ doc = NoDoc
    /\ key = 0
    /\ path = 0
    /\ value = <<>>
    /\ data = [reputation |-> Unset, user_reports |-> Unset]

(* ------------------------------ initial state ------------------------- *)

\* RateLimiter.__init__ at time 0, every task outside acquire().
InitLimiterState ==
    /\ now = 0
    /\ tokens = Capacity
    /\ updated_at = 0
    /\ cooldown_until = 0
    /\ cpc = [c \in Clients |-> "idle"]
    /\ cwake = [c \in Clients |-> 0]
    /\ ccall = [c \in Clients |-> NoCall]
    /\ ncalls = 0
    /\ n429 = 0
    /\ maxDeadline = 0
    /\ returned = NoCall
    /\ grants = <<>>

\* The module's globals as main() finds them; the output file is absent or
\* was left by an earlier run.
InitRun ==
    /\ mpc = "read"
    /\ mwake = 0
    /\ phone_numbers = <<>>
    /\ i = 0
    /\ results_buffer = <<>>
    /\ stats = [total |-> 0, success |-> 0, failed |-> 0, rate_limited |-> 0]
    /\ output \in {AbsentFile, EarlierFile}
    /\ semaphore = ConcurrentRequests
    /\ wpc = [j \in Slots |-> "none"]
    /\ wwake = [j \in Slots |-> 0]
    /\ attempt = [j \in Slots |-> 0]
    /\ result = [j \in Slots |-> NoResult]
    /\ spc = [at |-> "none", next |-> "none"]
    /\ swritten = 0
    /\ aborted = "no"
    /\ failures = 0
    /\ save_failed = FALSE
    /\ atAbort = <<>>
    /\ response = NoResponse

Init == InitLimiterState /\ InitRun /\ InitReaderState /\ InitParserState

InitLimiter == Init /\ output = AbsentFile

NextLimiter ==
    \/ \E c \in Clients : AcquireEnter(c)
    \/ \E c \in Clients : AcquireAfterCooldown(c)
    \/ \E c \in Clients : AcquireAfterDeficit(c)
    \/ \E c \in Clients, b \in Backoffs : Record429(c, b)
    \/ LimiterTick

SpecLimiter == InitLimiter /\ [][NextLimiter]_vars

NextReader ==
    \/ \E l \in Lines : NextLine(l)
    \/ ProcessLine
    \/ ReturnNumbers
    \/ ReadFails

SpecReader == InitLimiter /\ [][NextReader]_vars

NextParser ==
    \/ \E d \in Docs : ParseCall(d)
    \/ TryPath
    \/ EndField

SpecParser == InitLimiter /\ [][NextParser]_vars

\* The steps of a run nobody interrupts.
NextRun ==
    \/ \E nums \in InputLists, ok \in BOOLEAN : MRead(nums, ok)
    \/ MBatch
    \/ \E ok \in BOOLEAN : MHealth(ok)
    \/ MAfterPause
    \/ \E j \in Slots, human \in BOOLEAN : WStart(j, human)
    \/ \E j \in Slots, human \in BOOLEAN : WSemaphore(j, human)
    \/ \E j \in Slots, human \in BOOLEAN : WAfterCooldown(j, human)
    \/ \E j \in Slots, human \in BOOLEAN : WAfterDeficit(j, human)
    \/ \E j \in Slots : WAfterHuman(j)
    \/ \E j \in Slots, r \in Responses : WResponse(j, r)
    \/ \E j \in Slots : WAfterBackoff(j)
    \/ \E j \in Slots : WAfterRetry(j)
    \/ MCollect
    \/ SaveOpen
    \/ SaveRow
    \/ SaveClear
    \/ SaveFail
    \/ MDelay
    \/ MClose
    \/ Tick

Next ==
    \/ NextRun
    \/ \E how \in {"kb", "fatal"} : Abort(how)

Spec == Init /\ [][Next]_vars

\* A run nobody interrupts, on an event loop that keeps running: whenever some
\* task, the coordinator or a timer can take a step, a step is taken.
SpecLive == InitLimiter /\ [][NextRun]_vars /\ WF_vars(NextRun)

(* --------------------------- claims on the run ------------------------ *)

Range(seq) == {seq[k] : k \in DOMAIN seq}

\* The rows of the output file that hold identifier p.
RowsOf(p) ==
    Cardinality({k \in DOMAIN output.rows : output.rows[k].phone_number = p})

\* The rows of the output file that hold one of the outcomes S.
RowsHolding(S) ==
    Cardinality({k \in DOMAIN output.rows : output.rows[k] \in S})

IsPrefix(s, t) == Len(s) <= Len(t) /\ SubSeq(t, 1, Len(s)) = s

\* C1: whatever the server answers, a fetch_single task ends with exactly
\* one outcome, for its own record, and never with an exception: gather gets
\* no exception and process_batch returns as many outcomes as the batch has
\* records.
C1_OneOutcomePerRecord ==
    /\ \A j \in Slots :
          IF wpc[j] = "done"
          THEN result[j].kind = "row" /\ result[j].phone_number = Batch[j]
          ELSE result[j] = NoResult
    /\ BatchResolved => Len(ValidResults) = Len(Batch)

\* C1 witness: a full batch is resolved, one of its tasks after a 429 and
\* one with the outcome of exhausted retries.
C1_Witness ==
    /\ BatchResolved
    /\ Len(Batch) = BatchSize
    /\ stats.rate_limited >= 1
    /\ \E j \in Slots : result[j].reputation = "Error"

\* C2: a run that completes without interruption and without a failed write
\* has added exactly one row per identifier read, failure outcomes included.
C2_OneRowPerIdentifier ==
    (mpc = "done" /\ aborted = "no" /\ failures = 0) =>
        /\ \A p \in 1..NumRecords :
              RowsOf(p) = IF p <= Len(phone_numbers) THEN 1 ELSE 0
        /\ RowsOf(0) = IF output.rows # <<>> /\ output.rows[1] = EarlierRow
                       THEN 1 ELSE 0

\* C2 witness: a completed run of more records than one batch, two flushes,
\* with a Blocked and an Error outcome among its rows.
C2_Witness ==
    /\ mpc = "done" /\ aborted = "no" /\ failures = 0
    /\ Len(phone_numbers) > BatchSize
    /\ \E k \in DOMAIN output.rows : output.rows[k].reputation = "Error"
    /\ \E k \in DOMAIN output.rows : output.rows[k].reputation = "Blocked"

\* C3 (as claimed, for runs in which no write fails): when the run is cut
\* short while the buffer holds N outcomes, the file holds exactly N rows for
\* them at exit, each outcome once, also when the interrupt arrives while
\* save_batch is at work.
C3_AbortFlushesOnce ==
    (mpc = "done" /\ aborted # "no" /\ failures = 0) =>
        RowsHolding(Range(atAbort)) = Len(atAbort)

C5_HeaderOnceAppendOnly ==
    /\ [](output.headers <= 1)
    /\ [][/\ output'.headers >= output.headers
          /\ (output'.headers > output.headers => ~output.exists)
          /\ IsPrefix(output.rows, output'.rows)
          /\ (output.exists => output'.exists)]_vars

\* C5 witness: a run on the file an earlier run left has flushed twice; the
\* earlier row is still the first one and the header is the only one.
C5_Witness ==
    /\ mpc = "done"
    /\ output.rows # <<>> /\ output.rows[1] = EarlierRow
    /\ Len(output.rows) > 1 + BatchSize
    /\ output.headers = 1

(* ----------------------- claims on the RateLimiter -------------------- *)

\* The tasks that are between the entry and the return of acquire().
InsideAcquire == {c \in Clients : cpc[c] # "idle"}

\* The configured capacity in whole tokens.
CapacityTokens == Capacity \div TokenScale

\* 1 / rate seconds, in ticks.
OneOverRate == TicksPerSecond \div Rate

\* C6: in every reachable state, under any interleaving of concurrent
\* acquire() calls (several of them suspended inside acquire at once) and
\* record_429 calls, 0 <= tokens <= capacity.
C6_TokensInRange == 0 <= tokens /\ tokens <= Capacity

\* C6 witness: two tasks are suspended inside acquire(), a record_429 has
\* been made and has emptied the bucket.
C6_Witness == Cardinality(InsideAcquire) >= 2 /\ n429 >= 1 /\ tokens = 0

\* C7 (as claimed): no step ever moves cooldown_until to an earlier time,
\* whatever backoff values record_429 is called with.
C7_CooldownMonotone == [][cooldown_until' >= cooldown_until]_vars

\* C8 (as claimed): at most one task at a time is between the entry and the
\* return of acquire(), and record_429 runs only while no task is part-way
\* through acquire().
C8_MutualExclusion ==
    [][/\ Cardinality(InsideAcquire) <= 1
       /\ (n429' # n429 => InsideAcquire = {})]_vars

\* C9: on a full bucket with no time elapsed, the first capacity calls of
\* acquire() return without suspending, and the (capacity+1)-th call made at
\* that instant suspends for 1 / rate seconds before it returns.
C9_BurstThenWait ==
    /\ \A c \in InsideAcquire : ccall[c].no \notin 1..CapacityTokens
    /\ returned.no \in 1..CapacityTokens => ~returned.slept
    /\ returned.no = CapacityTokens + 1 =>
          /\ returned.slept
          /\ returned.sleep = OneOverRate
          /\ now >= OneOverRate

\* C9 witness: the (capacity+1)-th call on the full bucket has just returned
\* from its token-deficit wait.
C9_Witness == returned.no = CapacityTokens + 1 /\ returned.slept

\* C10 (as claimed): an acquire() that starts at or after a record_429(B)
\* made at time t, and before t + B, does not return before t + B.
C10_CooldownRespected == now >= returned.must

\* A step in which some acquire() call returns: a suspended task leaves
\* acquire(), or a call is granted at once.
AcquireReturns ==
    \/ \E c \in Clients : cpc[c] # "idle" /\ cpc'[c] = "idle"
    \/ ncalls' # ncalls /\ cpc' = cpc

\* C11 (as claimed): during a cooldown window no acquire() call returns
\* before the limiter's current cooldown_until, the calls that were already
\* suspended inside acquire() when record_429 was called included.
C11_CooldownHoldsEveryCall ==
    [][AcquireReturns => now >= cooldown_until]_vars

(* ------------------------ claims on fetch_single ---------------------- *)

\* The rate_limiter.acquire() calls task j has completed: the one call of
\* line 542, once the task is past it.
AcquiresCompleted(j) ==
    IF wpc[j] \in {"human", "request", "backoff", "retry", "done"}
    THEN 1 ELSE 0

\* The session.get requests task j has issued: one per iteration of the
\* loop of line 551 begun so far.
RequestsIssued(j) ==
    IF wpc[j] \in {"request", "backoff", "retry", "done"}
    THEN attempt[j] + 1 ELSE 0

\* C12 (as claimed): every request of a task, first attempt or retry, is
\* preceded by an acquire() of its own: a task has completed at least as
\* many acquire() calls as it has issued requests.
C12_PermitPerRequest ==
    \A j \in Slots : RequestsIssued(j) <= AcquiresCompleted(j)

\* The tasks that hold a slot of the semaphore: inside async with semaphore.
GateHolders ==
    {j \in Slots : wpc[j] \in {"cooldown", "deficit", "human", "request",
                              "backoff", "retry"}}

\* The tasks with an HTTP request in flight.
InFlight == {j \in Slots : wpc[j] = "request"}

\* C13: in every reachable state at most concurrent_requests tasks hold a
\* slot of the gate, so at most that many requests are in flight; the
\* semaphore's count is never negative and, while a batch runs, count and
\* holders add up to concurrent_requests.
C13_GateBound ==
    /\ Cardinality(GateHolders) <= ConcurrentRequests
    /\ Cardinality(InFlight) <= ConcurrentRequests
    /\ semaphore >= 0
    /\ mpc = "gather" =>
          semaphore + Cardinality(GateHolders) = ConcurrentRequests

\* C13 witness: the gate is full with a request in flight, and another task
\* of the batch waits for a slot.
C13_Witness ==
    /\ Cardinality(GateHolders) = ConcurrentRequests
    /\ InFlight # {}
    /\ \E j \in Slots : wpc[j] = "sem"

(* ------------------------- claims on main_async ----------------------- *)

\* The outcome of identifier p is in the results buffer or in the output.
Accounted(p) ==
    \/ \E k \in DOMAIN results_buffer : results_buffer[k].phone_number = p
    \/ RowsOf(p) >= 1

\* C14: batches run strictly in sequence.  Tasks exist only while main_async
\* awaits process_batch for the batch at offset i, and whenever tasks of
\* that batch exist every record of the batches before it has its outcome
\* appended to the buffer (or flushed from it) and counted in stats.
C14_BatchesInSequence ==
    /\ (\E j \in Slots : wpc[j] # "none") => mpc = "gather"
    /\ mpc = "gather" =>
          /\ \A p \in 1..i : Accounted(p)
          /\ stats.total = i
          /\ \A j \in Slots : (wpc[j] # "none") = (j <= Len(Batch))

\* C14 witness: a task of the second batch has its request in flight.
C14_Witness ==
    /\ mpc = "gather"
    /\ i >= BatchSize
    /\ \E j \in Slots : wpc[j] = "request"

\* C15 (as claimed): every record that reaches its outcome adds one to
\* exactly one of stats.success and stats.failed, so that when a run has
\* completed stats.success + stats.failed = stats.total, for every kind of
\* outcome.
C15_CountersAddUp ==
    (mpc = "done" /\ aborted = "no") =>
        stats.success + stats.failed = stats.total

\* C16: a task issues at most max_retries + 1 requests; a 429, a timeout, a
\* connection failure and a non-4xx error status each use up one attempt
\* (the request after it is the next attempt's); and the outcome "Error" is
\* returned only when max_retries + 1 requests have been issued.
C16_AttemptBudget ==
    /\ [](\A j \in Slots :
             /\ RequestsIssued(j) <= MaxRetries + 1
             /\ (wpc[j] = "done" /\ result[j].reputation = "Error") =>
                   RequestsIssued(j) = MaxRetries + 1)
    /\ [][\A j \in Slots :
             /\ (wpc[j] \in {"backoff", "retry"} /\ wpc'[j] = "request") =>
                   attempt'[j] = attempt[j] + 1
             /\ (wpc[j] = "request" /\ wpc'[j] # "none") =>
                   attempt'[j] = attempt[j]]_vars

\* C16 witness: a task has returned "Error" after a 429 and a further
\* failed attempt.
C16_Witness ==
    \E j \in Slots :
        /\ wpc[j] = "done"
        /\ result[j].reputation = "Error"
        /\ stats.rate_limited >= 1
        /\ attempt[j] = MaxRetries

\* C17: a 403, and any other 4xx status except 429, ends the task on the
\* attempt that receives it, whatever attempts remain: the task is done with
\* the outcome "Blocked" (403) or with the outcome that carries the status
\* (other 4xx), counted as failed, and a task that is done issues nothing more.
C17_ClientErrorsTerminal ==
    /\ [](LET j == response.j
              r == response.r
          IN  (j # 0 /\ r.kind = "http") =>
                /\ r.status = 403 =>
                      /\ wpc[j] = "done"
                      /\ result[j] = Row(Batch[j], "Blocked")
                /\ (r.status \in 400..499 /\ r.status \notin {403, 429}) =>
                      /\ wpc[j] = "done"
                      /\ result[j] = Row(Batch[j], HttpReputation(r.status)))
    /\ [][\A j \in Slots :
             wpc[j] = "done" => /\ wpc'[j] \in {"done", "none"}
                                /\ attempt'[j] \in {attempt[j], 0}]_vars

\* C17 witness: a task has just got a 404 on its first attempt, with
\* attempts remaining, and is done.
C17_Witness ==
    /\ response.j # 0
    /\ response.r.status = 404
    /\ attempt[response.j] = 0
    /\ AttemptsLeft(attempt[response.j])
    /\ wpc[response.j] = "done"

\* C18 (as claimed): on a 429 at attempt a the backoff given to record_429
\* is the wait the task then sleeps, min(2^(a+1), 60) s times a jitter in
\* [0.5, 1.5], so that cooldown_until is now + that wait; and the task's
\* next request is not issued before the cooldown it set is over.
C18_CooldownIsBackoff ==
    /\ [](LET j == response.j IN
          (j # 0 /\ response.r.kind = "http" /\ response.r.status = 429) =>
              /\ cooldown_until >= now + BackoffWait(attempt[j])
              /\ cooldown_until <= now + BackoffWaitMax(attempt[j]))
    /\ [][\A j \in Slots :
             (wpc[j] = "backoff" /\ wpc'[j] = "request") =>
                 now >= cooldown_until]_vars

(* ------------------------ claims on read_numbers ---------------------- *)

\* The digits of the first cell of the line the loop has read.
CellOfLine == FirstCell(Strip(line, SpaceChars))
DigitsOfLine == SelectSeq(CellOfLine, IsDigit)

\* The normalized value as it is stated: the non-digits removed, then a
\* leading 1 dropped iff exactly 11 digits remain.
Normalized(digits) ==
    IF Len(digits) = 11 /\ digits[1] = "1"
    THEN SubSeq(digits, 2, 11)
    ELSE digits

\* C19: every identifier read_numbers returns is exactly 10 digit
\* characters; the first cell of a data line is accepted iff its normalized
\* value has length 10, so that 9 digits, and 11 digits that do not start
\* with 1, never enter the list; a cell of exactly 10 digits is appended
\* unchanged; and a line that is no data line adds nothing.
C19_TenDigitsOnly ==
    /\ [](\A k \in DOMAIN numbers :
             /\ Len(numbers[k]) = 10
             /\ \A n \in DOMAIN numbers[k] : numbers[k][n] \in DigitChars)
    /\ [][rpc = "body" =>
             IF reached' = "data"
             THEN /\ IF Len(Normalized(DigitsOfLine)) = 10
                     THEN numbers' = Append(numbers, Normalized(DigitsOfLine))
                     ELSE numbers' = numbers
                  /\ (Len(CellOfLine) = 10 /\ DigitsOfLine = CellOfLine) =>
                        numbers' = Append(numbers, CellOfLine)
                  /\ Len(DigitsOfLine) = 9 => numbers' = numbers
                  /\ (Len(DigitsOfLine) = 11 /\ DigitsOfLine[1] # "1") =>
                        numbers' = numbers
             ELSE numbers' = numbers]_vars

\* C19 witness: the reader has accepted two identifiers, one that starts
\* with 5 and one that starts with 1, and has rejected a cell with digits.
C19_Witness ==
    /\ reached = "data"
    /\ Len(numbers) >= 2
    /\ skipped_count >= 1
    /\ \E k \in DOMAIN numbers : numbers[k][1] = "5"
    /\ \E k \in DOMAIN numbers : numbers[k][1] = "1"

\* C20 (as claimed): the skipped count is the number of non-blank lines,
\* the header apart, whose first cell does not normalize to 10 digits, a
\* cell without any digit and an invalid identifier on the first line
\* included; valid and skipped together are all the non-blank data lines;
\* and that count is what stats["skipped_invalid"] gets.
C20_SkippedCountsEveryInvalid ==
    /\ skipped_count = expectedSkipped
    /\ Len(numbers) + skipped_count = dataLines
    /\ rpc = "returned" => skipped_invalid = expectedSkipped

(* -------------------- claims on the run: later claims ----------------- *)

\* C21: when the input file cannot be opened or read, read_numbers returns
\* the empty list, and the run is over with that: no task is started, no
\* request is in flight, nothing is buffered or counted, save_batch is not
\* entered, and the output file stays as it was found: absent, or with
\* exactly what the earlier run left.
C21_ReadFailureEndsRun ==
    /\ [](rpc = "failed" =>
             /\ phone_numbers = <<>>
             /\ mpc = "done"
             /\ \A j \in Slots : wpc[j] = "none" /\ result[j] = NoResult
             /\ results_buffer = <<>>
             /\ stats.total = 0
             /\ spc.at = "none"
             /\ failures = 0
             /\ output \in {AbsentFile, EarlierFile})
    /\ [][rpc' = "failed" => output' = output]_vars

\* C21 witness: the read has failed on a run that found the file of an
\* earlier run, and the run is over.
C21_Witness ==
    /\ rpc = "failed"
    /\ mpc = "done"
    /\ output = EarlierFile

\* The positions at which a fetch_single task waits: for the gate, inside
\* acquire() for the cooldown or the token deficit, in a sleep of its own, or
\* for the answer to its request.
Waiting == {"ready", "sem", "cooldown", "deficit", "human", "request",
            "backoff", "retry"}

C23_NoSleepAfterLastAttempt ==
    [][\A j \in Slots :
          (wpc[j] = "request" /\ ~AttemptsLeft(attempt[j])) =>
              \/ wpc'[j] = "none"
              \/ /\ wpc'[j] = "done"
                 /\ semaphore' = semaphore + 1]_vars

\* C24: a 200 response is classified in order.  A body that holds a block
\* indicator, in any case, gives "Blocked" whatever its length; else a body
\* of fewer than 1000 characters gives "Empty Response"; else the extracted
\* reputation is the outcome.  In every case the task is done in the step
\* that receives the response, on the attempt it was on.
C24_OrderedClassification ==
    /\ [](LET j == response.j
              r == response.r
          IN  (j # 0 /\ r.kind = "http" /\ r.status = 200) =>
                /\ wpc[j] = "done"
                /\ result[j] =
                      Row(Batch[j],
                          IF r.indicator \in {"captcha", "CAPTCHA"}
                          THEN "Blocked"
                          ELSE IF r.length < 1000 THEN "Empty Response"
                          ELSE r.parsed))
    /\ [][\A j \in Slots :
             (response'.j = j /\ response'.r.status = 200) =>
                 attempt'[j] = attempt[j]]_vars

\* C24 witness: a short body with an upper-case block indicator has just
\* been received on a first attempt, with attempts remaining.
C24_Witness ==
    /\ response.j # 0
    /\ response.r.status = 200
    /\ response.r.indicator = "CAPTCHA"
    /\ response.r.length < MinBodyLength
    /\ AttemptsLeft(attempt[response.j])
    /\ result[response.j].reputation = "Blocked"

(* ----------------------- claims on parse_html_fast -------------------- *)

\* The selectors of field k that yield a non-empty stripped text.
Yielding(k) ==
    {p \in 1..NumPaths(k) :
        /\ PathResult(doc, k, p).kind = "text"
        /\ Strip(PathResult(doc, k, p).text, {" "}) # <<>>}

\* C25: parse_html_fast always returns a record.  Each field holds the
\* stripped text of the first selector, in list order, that yields a
\* non-empty one, whatever the later selectors give; with no such selector
\* reputation is "Not Found" and the other field is empty; a document that
\* cannot be parsed gives reputation "Parse Error" and the other field empty.
C25_FirstSelectorWins ==
    ppc = "returned" =>
        IF doc.broken
        THEN data = [reputation |-> <<"Parse Error">>, user_reports |-> <<>>]
        ELSE \A k \in DOMAIN KeyNames :
                data[KeyNames[k]] =
                    IF Yielding(k) # {}
                    THEN Strip(PathResult(doc, k, SetMin(Yielding(k))).text,
                               {" "})
                    ELSE IF KeyNames[k] = "reputation"
                         THEN <<"Not Found">> ELSE <<>>

\* C25 witness: the first selector of reputation raised, the second gave
\* only blanks, the third gave the value; the first selector of the other
\* field gave a padded value and a later one another value.
C25_Witness ==
    /\ ppc = "returned"
    /\ ~doc.broken
    /\ doc.rep[1] = Raises
    /\ doc.rep[2] = Match(<<" ">>)
    /\ data.reputation = <<"B">>
    /\ doc.oth[1] = Match(<<" ", "A", " ">>)
    /\ doc.oth[2] = Match(<<"B">>)
    /\ data.user_reports = <<"A">>

\* C26 (as claimed): stats and results_buffer are written by the
\* coordinator only, and only once every task of the batch has returned: a
\* step that changes a counter of stats or the buffer is never a step of a
\* fetch_single task, and never happens while a task of the batch is unresolved.
C26_SingleWriter ==
    [][(stats' # stats \/ results_buffer' # results_buffer) =>
          /\ \A j \in Slots : wpc[j] \in {"none", "done"}
          /\ \A j \in Slots : wpc'[j] = wpc[j] \/ wpc'[j] = "none"]_vars

(* ------------------- claims on the RateLimiter: the rate -------------- *)

\* C27 (as claimed): between any two returns of acquire(), the earlier at
\* time s and the later at time t, both counted, at most capacity +
\* rate * (t - s) calls have returned, in token units; also when several
\* tasks sleep on a token deficit at once.
C27_RateBound ==
    \A a, b \in DOMAIN grants :
        a <= b =>
            (b - a + 1) * OneToken <= Capacity + (grants[b] - grants[a])

(* --------------------- claims on the run: cooldown, order ------------- *)

\* C28 (as claimed): no request goes out while the limiter is in cooldown:
\* in every step in which a task issues a request, a first attempt or a
\* retry, the time is not before cooldown_until.
C28_NoRequestInCooldown ==
    [][\A j \in Slots :
          (wpc[j] # "request" /\ wpc'[j] = "request") =>
              now' >= cooldown_until']_vars

\* The identifiers of the rows this run has appended to the output file, in
\* file order (the row of the earlier run left out).
AppendedIds ==
    LET ids == [k \in DOMAIN output.rows |-> output.rows[k].phone_number]
    IN  SelectSeq(ids, LAMBDA p : p # 0)

\* C29 (as claimed): the rows a completed run has appended are in the order
\* of the identifiers in the input, whatever the order in which the tasks of
\* a batch returned: the k-th appended row is the row of the k-th identifier.
C29_RowsInInputOrder ==
    (mpc = "done" /\ aborted = "no") =>
        \A k \in DOMAIN AppendedIds : AppendedIds[k] = phone_numbers[k]

\* C30 (as claimed): whenever the coordinator is between two batches, and
\* when the run is over, the rows this run has appended and the outcomes in
\* the buffer together are stats.total; and stats.total never exceeds the
\* number of identifiers read.
C30_Accounting ==
    /\ mpc \in {"batch", "health", "pause", "delay", "close", "done"} =>
          Len(AppendedIds) + Len(results_buffer) = stats.total
    /\ stats.total <= Len(phone_numbers)

\* C31 (as claimed): a failed flush loses nothing and stops nothing.  The
\* step in which save_batch fails leaves the buffer as it was and the run
\* goes on where the caller continues; no outcome is ever lost (it is in the
\* buffer or in the file once counted); and, in a run nobody interrupts, no
\* identifier's row is written twice, whatever flush failed before.
C31_FailedFlushLosesNothing ==
    /\ [][failures' # failures =>
             /\ results_buffer' = results_buffer
             /\ mpc' = spc.next
             /\ aborted' = aborted]_vars
    /\ [](\A p \in 1..stats.total : Accounted(p))
    /\ [](aborted = "no" => \A p \in 1..NumRecords : RowsOf(p) <= 1)

====
